---- MODULE Spec2Model ----
(***************************************************************************)
(* Bisection root finder and inverse-value wrapper of src/bisection.py.    *)
(*                                                                         *)
(* Numbers.  Python floats are modelled as fixed-point numbers: an integer *)
(* n stands for n units in the last place.  Sums and differences of grid   *)
(* numbers are exact; the midpoint (a + b) / 2 is rounded to the nearest    *)
(* grid number, ties to even, as IEEE-754 does.  Overflow is not modelled.  *)
(*                                                                         *)
(* Time.  time.perf_counter() is a monotonic clock whose successive        *)
(* readings inside one call are separated by function evaluations and      *)
(* console output, so each reading is later than the previous one by a     *)
(* positive amount (seconds).                                              *)
(*                                                                         *)
(* Every variable is a function over the invocations under study (one in   *)
(* Spec, two independent ones in SpecPair): all state of the program is    *)
(* local to a call.                                                        *)
(***************************************************************************)
EXTENDS Integers, Sequences, FiniteSets, TLC

VARIABLES
    arg,              \* the caller's arguments: entry point, function, a, b, tolerance, is_increasing, y
    run_time_limit,   \* find_root's parameter run_time_limit
    a,                \* find_root's live left endpoint
    b,                \* find_root's live right endpoint
    is_increasing,    \* find_root's parameter is_increasing, overwritten at line 92
    c,                \* last midpoint
    func_midpoint,    \* effective function value at the last midpoint
    start_time,       \* find_root's start_time (line 87)
    inv_start_time,   \* find_inverse_value's start_time (line 160)
    clock,            \* last reading of time.perf_counter()
    elapsed,          \* elapsed time found at the last deadline check (line 129)
    pc,               \* position of the invocation
    iterations,       \* number of loop bodies entered (lines 102-127)
    mids,             \* sequence of midpoints visited so far
    evaluations,      \* number of calls of the function made so far
    exit,             \* how find_root left: "none", "converged", "timeout"
    err,              \* exception that ended the invocation, or "none"
    result,           \* find_root's return value (c, elapsed, func_midpoint), or << >>
    inverse_result    \* find_inverse_value's return value (inverse_value, elapsed), or << >>

vars == <<arg, run_time_limit, a, b, is_increasing, c, func_midpoint, start_time,
          inv_start_time, clock, elapsed, pc, iterations, mids, evaluations, exit,
          err, result, inverse_result>>

----------------------------------------------------------------------------
(* Bounds of the model *)

\* The grid of representable abscissae is -XMax .. XMax.
XMax == 4

\* Smallest advance of the clock between two readings, in seconds.
TickStep == 30

\* The loop has no iteration bound of its own (line 100); the model stops
\* exploring a call after this many loop bodies.  With the clock advancing
\* by at least TickStep per reading no call gets that far: Termination
\* could not hold otherwise.
MaxIterations == 8

----------------------------------------------------------------------------
(* Program constants *)

\* find_root's default run_time_limit (line 63)
DefaultRunTimeLimit == 60

\* the run_time_limit find_inverse_value passes (line 171)
InverseRunTimeLimit == 180

----------------------------------------------------------------------------
(* Numbers *)

Abs(n) == IF n < 0 THEN -n ELSE n

RECURSIVE Pow2(_)
Pow2(n) == IF n = 0 THEN 1 ELSE 2 * Pow2(n - 1)

\* Midpoint written without the parentheses: a + b / 2.
MidpointUnparenthesised(lo, hi) == lo + (hi \div 2)

\* c = (a + b) / 2 (line 102): exact when a + b is even, otherwise the tie
\* between the two neighbouring grid numbers goes to the even one.
Midpoint(lo, hi) ==
    LET s == lo + hi
        q == s \div 2
    IN  IF s % 2 = 0 THEN q
        ELSE IF q % 2 = 0 THEN q ELSE q + 1

----------------------------------------------------------------------------
(* The functions handed to the solver *)

\* A Callable is a record [shape, s, k, r2]; its value at x:
\*   "lin"   s * k * (2x - r2)       strictly monotonic, root r2 / 2
\*   "cube"  s * (2x - r2)^3         strictly monotonic, root r2 / 2
\*                                   (s = 1, r2 = 4 is 8 (x - 2)^3, lines 7-17)
\*   "sq"    (2x - r2)^2 - k         not monotonic around r2 / 2
\*   "const" k                       constant
Apply(f, x) ==
    LET u == 2 * x - f.r2
    IN  CASE f.shape = "lin"   -> f.s * f.k * u
          [] f.shape = "cube"  -> f.s * u * u * u
          [] f.shape = "sq"    -> u * u - f.k
          [] f.shape = "const" -> f.k

Functions ==
    [shape : {"lin"}, s : {1, -1}, k : {1, 3}, r2 : {-7, 2, 4, 11}]
    \cup [shape : {"cube"}, s : {1, -1}, k : {1}, r2 : {1, 4}]
    \cup [shape : {"sq"}, s : {1}, k : {9}, r2 : {0, 1}]
    \cup [shape : {"const"}, s : {1}, k : {0, 5}, r2 : {0}]

\* Interval endpoints, tolerances, targets and time budgets a caller passes.
Endpoints == {-XMax, -1, 0, 3, XMax}
Tolerances == {-1, 0, 1, 2}
Targets == {-(XMax + 1), -2, 0, 1, 3}
RunTimeLimits == {0, DefaultRunTimeLimit}

----------------------------------------------------------------------------
(* time.perf_counter(): the readings possible after the reading t *)

ClockSteps == {TickStep, 2 * TickStep}

\* A clock that stands still.
PerfCounterFrozen(t) == {t}

PerfCounter(t) == {t + d : d \in ClockSteps}

----------------------------------------------------------------------------
(* check_strict_monotonicity, lines 35-53 *)

\* The check with a tie taken for an increasing function.
check_monotonicity_guessing(f, lo, hi) ==
    IF Apply(f, lo) > Apply(f, hi) THEN "decreasing" ELSE "increasing"

check_strict_monotonicity(f, lo, hi) ==
    IF Apply(f, lo) > Apply(f, hi) THEN "decreasing"
    ELSE IF Apply(f, lo) < Apply(f, hi) THEN "increasing"
    ELSE "ValueError"

\* the calls of the function that check makes: the elif at line 41 evaluates
\* both endpoints again
MonotonicityEvaluations(f, lo, hi) ==
    IF Apply(f, lo) > Apply(f, hi) THEN 2 ELSE 4

\* The flag as the caller passed it, never recomputed.
MonotonicityFlagTrusted(f, lo, hi, target, given) ==
    IF target # 0 THEN ~given ELSE given

\* The recomputed flag, not inverted for a nonzero target.
MonotonicityFlagNotInverted(f, lo, hi, target, given) ==
    Apply(f, lo) < Apply(f, hi)

\* lines 92-97: the flag in use in the loop; the value the caller passed
\* (given) is overwritten
MonotonicityFlag(f, lo, hi, target, given) ==
    LET checked == (check_strict_monotonicity(f, lo, hi) = "increasing")
    IN  IF target # 0 THEN ~checked ELSE checked

\* lines 104-109: the effective function
Effective(f, target, x) ==
    IF target = 0 THEN Apply(f, x) ELSE target - Apply(f, x)

\* The convergence test without the absolute value.
ConvergedSigned(v, tol) == v <= tol

\* The convergence test with a strict comparison.
ConvergedStrict(v, tol) == Abs(v) < tol

\* line 114
Converged(v, tol) == Abs(v) <= tol

\* The bracket update with the decreasing branch a copy of the increasing one.
BracketUpdateCopied(inc, v, lo, hi, mid) ==
    IF v > 0 THEN <<lo, mid>> ELSE <<mid, hi>>

\* lines 117-126: the new <<a, b>>
BracketUpdate(inc, v, lo, hi, mid) ==
    IF inc
    THEN IF v > 0 THEN <<lo, mid>> ELSE <<mid, hi>>
    ELSE IF v > 0 THEN <<mid, hi>> ELSE <<lo, mid>>

\* The deadline test with its operands exchanged.
TimeExceededSwapped(e, limit) == limit > e

\* line 129
TimeExceeded(e, limit) == e > limit

\* The range check with a strict lower bound.
InRangeStrict(target, lo, hi) == lo < target /\ target <= hi

\* line 162
InRange(target, lo, hi) == lo <= target /\ target <= hi

----------------------------------------------------------------------------
(* Initial states *)

Runs == DOMAIN pc

InitRuns(R, e, f, lo, hi, tol, flag, target, limit) ==
    /\ arg = [i \in R |-> [entry |-> e[i], function |-> f, a |-> lo, b |-> hi,
                           tolerance |-> tol, is_increasing |-> flag[i], y |-> target]]
    /\ run_time_limit = [i \in R |-> limit[i]]
    /\ a = [i \in R |-> lo]
    /\ b = [i \in R |-> hi]
    /\ is_increasing = [i \in R |-> flag[i]]
    /\ c = [i \in R |-> 0]
    /\ func_midpoint = [i \in R |-> 0]
    /\ start_time = [i \in R |-> 0]
    /\ inv_start_time = [i \in R |-> 0]
    /\ clock = [i \in R |-> 0]
    /\ elapsed = [i \in R |-> 0]
    /\ pc = [i \in R |-> e[i]]
    /\ iterations = [i \in R |-> 0]
    /\ mids = [i \in R |-> << >>]
    /\ evaluations = [i \in R |-> 0]
    /\ exit = [i \in R |-> "none"]
    /\ err = [i \in R |-> "none"]
    /\ result = [i \in R |-> << >>]
    /\ inverse_result = [i \in R |-> << >>]

\* One invocation, of either entry point, with any arguments.  A direct
\* caller of find_root chooses y and run_time_limit; find_inverse_value's
\* caller cannot choose the limit.
Init ==
    \E e \in {"find_root", "find_inverse_value"}, f \in Functions,
       lo \in Endpoints, hi \in Endpoints, tol \in Tolerances,
       flag \in BOOLEAN, target \in Targets, limit \in RunTimeLimits :
        /\ e = "find_inverse_value" => limit = DefaultRunTimeLimit
        /\ InitRuns({1}, [i \in {1} |-> e], f, lo, hi, tol, [i \in {1} |-> flag],
                    target, [i \in {1} |-> limit])

----------------------------------------------------------------------------
(* find_inverse_value, lines 160-172: timer, range check, call of find_root *)

FindInverseValue(i) ==
    /\ pc[i] = "find_inverse_value"
    /\ \E t \in PerfCounter(clock[i]) :
        /\ clock' = [clock EXCEPT ![i] = t]
        /\ inv_start_time' = [inv_start_time EXCEPT ![i] = t]
    /\ IF InRange(arg[i].y, arg[i].a, arg[i].b)
       THEN /\ pc' = [pc EXCEPT ![i] = "find_root"]
            /\ run_time_limit' = [run_time_limit EXCEPT ![i] = InverseRunTimeLimit]
            /\ err' = err
       ELSE /\ pc' = [pc EXCEPT ![i] = "raised"]
            /\ err' = [err EXCEPT ![i] = "OutOfRangeError"]
            /\ run_time_limit' = run_time_limit
    /\ UNCHANGED <<arg, a, b, is_increasing, c, func_midpoint, start_time, elapsed,
                   iterations, mids, evaluations, exit, result, inverse_result>>

(* find_root, lines 87-99: timer, assertions, monotonicity check *)

FindRoot(i) ==
    /\ pc[i] = "find_root"
    /\ \E t \in PerfCounter(clock[i]) :
        /\ clock' = [clock EXCEPT ![i] = t]
        /\ start_time' = [start_time EXCEPT ![i] = t]
    /\ IF ~(a[i] < b[i])
       THEN /\ pc' = [pc EXCEPT ![i] = "raised"]
            /\ err' = [err EXCEPT ![i] = "InvalidIntervalError"]
            /\ UNCHANGED <<is_increasing, evaluations>>
       ELSE IF ~(arg[i].tolerance > 0)
       THEN /\ pc' = [pc EXCEPT ![i] = "raised"]
            /\ err' = [err EXCEPT ![i] = "InvalidToleranceError"]
            /\ UNCHANGED <<is_increasing, evaluations>>
       ELSE IF check_strict_monotonicity(arg[i].function, a[i], b[i]) = "ValueError"
       THEN /\ pc' = [pc EXCEPT ![i] = "raised"]
            /\ err' = [err EXCEPT ![i] = "NonMonotonicError"]
            /\ is_increasing' = is_increasing
            /\ evaluations' = [evaluations EXCEPT ![i] = @ + 4]
       ELSE /\ pc' = [pc EXCEPT ![i] = "loop"]
            /\ err' = err
            /\ evaluations' = [evaluations EXCEPT ![i] =
                   @ + MonotonicityEvaluations(arg[i].function, a[i], b[i])]
            /\ is_increasing' = [is_increasing EXCEPT ![i] =
                   MonotonicityFlag(arg[i].function, a[i], b[i], arg[i].y,
                                    is_increasing[i])]
    /\ UNCHANGED <<arg, run_time_limit, a, b, c, func_midpoint, inv_start_time,
                   elapsed, iterations, mids, exit, result, inverse_result>>

(* one loop body, lines 102-127 *)

Iterate(i) ==
    /\ pc[i] = "loop"
    /\ iterations[i] < MaxIterations
    /\ LET mid == Midpoint(a[i], b[i])
           v == Effective(arg[i].function, arg[i].y, mid)
       IN  /\ c' = [c EXCEPT ![i] = mid]
           /\ func_midpoint' = [func_midpoint EXCEPT ![i] = v]
           /\ mids' = [mids EXCEPT ![i] = Append(@, mid)]
           /\ iterations' = [iterations EXCEPT ![i] = @ + 1]
           /\ evaluations' = [evaluations EXCEPT ![i] = @ + 1]
           /\ IF Converged(v, arg[i].tolerance)
              THEN \* line 115
                   /\ \E t \in PerfCounter(clock[i]) :
                        /\ clock' = [clock EXCEPT ![i] = t]
                        /\ result' = [result EXCEPT ![i] = <<mid, t - start_time[i], v>>]
                   /\ exit' = [exit EXCEPT ![i] = "converged"]
                   /\ pc' = [pc EXCEPT ![i] =
                          IF arg[i].entry = "find_root" THEN "done" ELSE "unpack"]
                   /\ UNCHANGED <<a, b>>
              ELSE /\ a' = [a EXCEPT ![i] =
                          BracketUpdate(is_increasing[i], v, a[i], b[i], mid)[1]]
                   /\ b' = [b EXCEPT ![i] =
                          BracketUpdate(is_increasing[i], v, a[i], b[i], mid)[2]]
                   /\ pc' = [pc EXCEPT ![i] = "deadline"]
                   /\ UNCHANGED <<clock, result, exit>>
    /\ UNCHANGED <<arg, run_time_limit, is_increasing, start_time, inv_start_time,
                   elapsed, err, inverse_result>>

(* the deadline check after the bracket update, lines 129-136 *)

CheckDeadline(i) ==
    /\ pc[i] = "deadline"
    /\ \E t \in PerfCounter(clock[i]) :
        /\ elapsed' = [elapsed EXCEPT ![i] = t - start_time[i]]
        /\ IF TimeExceeded(t - start_time[i], run_time_limit[i])
           THEN /\ \E t2 \in PerfCounter(t) :
                     /\ clock' = [clock EXCEPT ![i] = t2]
                     /\ result' = [result EXCEPT ![i] =
                            <<c[i], t2 - start_time[i], func_midpoint[i]>>]
                /\ exit' = [exit EXCEPT ![i] = "timeout"]
                /\ pc' = [pc EXCEPT ![i] =
                       IF arg[i].entry = "find_root" THEN "done" ELSE "unpack"]
           ELSE /\ clock' = [clock EXCEPT ![i] = t]
                /\ pc' = [pc EXCEPT ![i] = "loop"]
                /\ UNCHANGED <<result, exit>>
    /\ UNCHANGED <<arg, run_time_limit, a, b, is_increasing, c, func_midpoint,
                   start_time, inv_start_time, iterations, mids, evaluations, err,
                   inverse_result>>

(* find_inverse_value, lines 164 and 174: unpack and return *)

FindInverseValueReturn(i) ==
    /\ pc[i] = "unpack"
    /\ \E t \in PerfCounter(clock[i]) :
        /\ clock' = [clock EXCEPT ![i] = t]
        /\ inverse_result' = [inverse_result EXCEPT ![i] =
               <<result[i][1], t - inv_start_time[i]>>]
    /\ pc' = [pc EXCEPT ![i] = "done"]
    /\ UNCHANGED <<arg, run_time_limit, a, b, is_increasing, c, func_midpoint,
                   start_time, inv_start_time, elapsed, iterations, mids, evaluations,
                   exit, err, result>>

Next ==
    \/ \E i \in Runs : FindInverseValue(i)
    \/ \E i \in Runs : FindRoot(i)
    \/ \E i \in Runs : Iterate(i)
    \/ \E i \in Runs : CheckDeadline(i)
    \/ \E i \in Runs : FindInverseValueReturn(i)

Spec == Init /\ [][Next]_vars

\* The program is sequential: a call that can take a step takes it.
LiveSpec == Spec /\ WF_vars(Next)

\* Two invocations on the same function, interval, tolerance and target: the
\* first of find_root, the second of either entry point; the flag passed and
\* the clock are each invocation's own.
PairFunctions == [shape : {"lin"}, s : {1, -1}, k : {1}, r2 : {-7, 2}]

InitPair ==
    \E e \in {"find_root", "find_inverse_value"}, f \in PairFunctions,
       lo \in {-XMax, 0}, flag \in [{1, 2} -> BOOLEAN], target \in {0, 1} :
        InitRuns({1, 2}, [i \in {1, 2} |-> IF i = 1 THEN "find_root" ELSE e],
                 f, lo, XMax, 1, flag, target,
                 [i \in {1, 2} |-> DefaultRunTimeLimit])

SpecPair == InitPair /\ [][Next]_vars

----------------------------------------------------------------------------
(* Vocabulary of the properties *)

StrictlyIncreasingOn(f, lo, hi) ==
    \A x1 \in lo..hi, x2 \in lo..hi : x1 < x2 => Apply(f, x1) < Apply(f, x2)

StrictlyDecreasingOn(f, lo, hi) ==
    \A x1 \in lo..hi, x2 \in lo..hi : x1 < x2 => Apply(f, x1) > Apply(f, x2)

StrictlyMonotonicOn(f, lo, hi) ==
    StrictlyIncreasingOn(f, lo, hi) \/ StrictlyDecreasingOn(f, lo, hi)

\* The functions of the model are polynomials, hence continuous: a strictly
\* monotonic one has the root r of its effective function in [lo, hi] exactly
\* when the effective values at lo and hi are not of the same strict sign.
RootWithin(f, target, lo, hi) ==
    LET el == Effective(f, target, lo)
        eh == Effective(f, target, hi)
    IN  (el <= 0 /\ 0 <= eh) \/ (eh <= 0 /\ 0 <= el)

InLoop(i) == pc[i] \in {"loop", "deadline"}

Returned(i) == exit[i] # "none"

\* find_root has been entered by invocation i
Entered(i) == pc[i] \notin {"find_inverse_value", "find_root"} /\ err[i] # "OutOfRangeError"

IsPrefix(s, t) == Len(s) <= Len(t) /\ \A n \in 1..Len(s) : s[n] = t[n]

----------------------------------------------------------------------------
(* C1 *)

RootCase(i) ==
    /\ arg[i].entry = "find_root"
    /\ arg[i].y = 0
    /\ arg[i].a < arg[i].b
    /\ arg[i].tolerance > 0
    /\ StrictlyMonotonicOn(arg[i].function, arg[i].a, arg[i].b)
    /\ RootWithin(arg[i].function, 0, arg[i].a, arg[i].b)

\* C1: a call find_root(f, a, b, tolerance, y = 0) with f strictly monotonic
\* and a root bracketed by a < b raises nothing, and when it returns without
\* having exhausted its time budget the estimate x* lies in [a, b],
\* |f(x*)| <= tolerance, and the third component is f(x*).
FindRootContract ==
    \A i \in Runs : RootCase(i) =>
        /\ err[i] = "none"
        /\ pc[i] = "done" => exit[i] \in {"converged", "timeout"}
        /\ exit[i] = "converged" =>
            /\ arg[i].a <= result[i][1] /\ result[i][1] <= arg[i].b
            /\ Abs(Apply(arg[i].function, result[i][1])) <= arg[i].tolerance
            /\ result[i][3] = Apply(arg[i].function, result[i][1])

FindRootContractWitness ==
    \E i \in Runs :
        /\ RootCase(i)
        /\ pc[i] = "done" /\ exit[i] = "converged"
        /\ iterations[i] >= 3
        /\ StrictlyDecreasingOn(arg[i].function, arg[i].a, arg[i].b)
        /\ result[i][3] < 0

----------------------------------------------------------------------------
(* C2 *)

\* the interior points x0 of [a, b] with f(x0) = y
Preimages(i) ==
    {x0 \in (arg[i].a + 1)..(arg[i].b - 1) : Apply(arg[i].function, x0) = arg[i].y}

InverseCase(i) ==
    /\ arg[i].entry = "find_inverse_value"
    /\ arg[i].tolerance > 0
    /\ StrictlyMonotonicOn(arg[i].function, arg[i].a, arg[i].b)
    /\ arg[i].a <= arg[i].y /\ arg[i].y <= arg[i].b
    /\ Preimages(i) # {}

\* C2: find_inverse_value(f, y, a, b, tol) with f strictly monotonic and
\* y = f(x0) for an interior x0, a <= y <= b, raises nothing; the flag in use
\* is the inverse of f's monotonicity when y # 0 and f's monotonicity when
\* y = 0; x0 stays in the live interval; and a return that did not exhaust
\* the time budget gives x' in [a, b] with |y - f(x')| <= tol.
InverseRoundTrip ==
    \A i \in Runs : InverseCase(i) =>
        /\ err[i] = "none"
        /\ Entered(i) =>
            /\ is_increasing[i] =
                 (IF arg[i].y # 0
                  THEN ~StrictlyIncreasingOn(arg[i].function, arg[i].a, arg[i].b)
                  ELSE StrictlyIncreasingOn(arg[i].function, arg[i].a, arg[i].b))
            /\ \A x0 \in Preimages(i) : a[i] <= x0 /\ x0 <= b[i]
        /\ (pc[i] = "done" /\ exit[i] = "converged") =>
            /\ arg[i].a <= inverse_result[i][1] /\ inverse_result[i][1] <= arg[i].b
            /\ Abs(arg[i].y - Apply(arg[i].function, inverse_result[i][1]))
                 <= arg[i].tolerance

InverseRoundTripWitness ==
    \E i \in Runs :
        /\ InverseCase(i)
        /\ arg[i].y # 0
        /\ pc[i] = "done" /\ exit[i] = "converged"
        /\ iterations[i] >= 2
        /\ inverse_result[i][1] \in Preimages(i)

----------------------------------------------------------------------------
(* C3 *)

\* C3: once find_root has been entered, a >= b, tolerance <= 0 or
\* f(a) = f(b) ends the call with the error of the first of these checks
\* that fails (InvalidIntervalError, InvalidToleranceError,
\* NonMonotonicError); a call that ended with an error has returned nothing,
\* has run no loop iteration and has left the interval as it was passed.
PreconditionErrors ==
    \A i \in Runs :
        /\ Entered(i) =>
            /\ (arg[i].a >= arg[i].b \/ arg[i].tolerance <= 0
                \/ Apply(arg[i].function, arg[i].a) = Apply(arg[i].function, arg[i].b))
                 => err[i] # "none"
            /\ arg[i].a >= arg[i].b => err[i] = "InvalidIntervalError"
            /\ (arg[i].a < arg[i].b /\ arg[i].tolerance <= 0)
                 => err[i] = "InvalidToleranceError"
            /\ (arg[i].a < arg[i].b /\ arg[i].tolerance > 0
                /\ Apply(arg[i].function, arg[i].a) = Apply(arg[i].function, arg[i].b))
                 => err[i] = "NonMonotonicError"
        /\ err[i] # "none" =>
            /\ pc[i] = "raised"
            /\ result[i] = << >> /\ inverse_result[i] = << >> /\ exit[i] = "none"
            /\ iterations[i] = 0 /\ mids[i] = << >>
            /\ a[i] = arg[i].a /\ b[i] = arg[i].b

PreconditionErrorsWitness ==
    \E i \in Runs :
        /\ err[i] = "NonMonotonicError"
        /\ arg[i].function.shape = "sq"
        /\ arg[i].a < arg[i].b /\ arg[i].tolerance > 0

----------------------------------------------------------------------------
(* C4 *)

\* C4: find_inverse_value raises OutOfRangeError exactly when y < a or
\* y > b, with find_root not entered and no call of f made; otherwise it
\* calls find_root with y and a budget of 180 seconds and returns
\* find_root's estimate unchanged.
InverseRange ==
    \A i \in Runs :
        (arg[i].entry = "find_inverse_value" /\ pc[i] # "find_inverse_value") =>
            /\ err[i] = "OutOfRangeError"
                 <=> (arg[i].y < arg[i].a \/ arg[i].y > arg[i].b)
            /\ err[i] = "OutOfRangeError" =>
                 /\ pc[i] = "raised"
                 /\ evaluations[i] = 0 /\ iterations[i] = 0
                 /\ start_time[i] = 0
                 /\ inverse_result[i] = << >>
            /\ err[i] # "OutOfRangeError" =>
                 run_time_limit[i] = InverseRunTimeLimit
            /\ pc[i] = "done" =>
                 /\ result[i] # << >>
                 /\ inverse_result[i][1] = result[i][1]
                 /\ inverse_result[i][1] = c[i]

InverseRangeWitness ==
    \E i \in Runs :
        /\ arg[i].entry = "find_inverse_value"
        /\ arg[i].y = arg[i].a
        /\ arg[i].a < arg[i].b
        /\ pc[i] = "done"

----------------------------------------------------------------------------
(* C5 *)

\* C5: at a deadline check (made after the bracket update of an iteration
\* that did not converge) that finds the elapsed time above the limit,
\* find_root returns, without raising, the midpoint of that iteration, an
\* elapsed time >= the limit and the effective value at that midpoint; with
\* a limit of 0 the first deadline check already returns.
SoftTimeout ==
    [][\A i \in Runs : (pc[i] = "deadline" /\ pc'[i] # "deadline") =>
          /\ ~Converged(func_midpoint[i], arg[i].tolerance)
          /\ elapsed'[i] > run_time_limit[i] =>
               /\ pc'[i] \in {"done", "unpack"}
               /\ err'[i] = "none"
               /\ exit'[i] = "timeout"
               /\ result'[i][1] = mids[i][Len(mids[i])]
               /\ result'[i][1] = c[i]
               /\ result'[i][2] >= run_time_limit[i]
               /\ result'[i][3] = Effective(arg[i].function, arg[i].y, result'[i][1])
          /\ run_time_limit[i] = 0 => (exit'[i] = "timeout" /\ iterations'[i] = 1)
      ]_vars

SoftTimeoutWitness ==
    \E i \in Runs :
        /\ run_time_limit[i] = 0
        /\ exit[i] = "timeout" /\ pc[i] = "done"
        /\ iterations[i] = 1
        /\ Abs(result[i][3]) > arg[i].tolerance

----------------------------------------------------------------------------
(* C6 *)

SameInputs(i, j) ==
    /\ arg[i].function = arg[j].function
    /\ arg[i].a = arg[j].a /\ arg[i].b = arg[j].b
    /\ arg[i].tolerance = arg[j].tolerance
    /\ arg[i].y = arg[j].y

\* C6: two invocations of find_root on the same f, a, b, tolerance and y
\* use the same flag in the loop and visit the same midpoints (one sequence
\* is a prefix of the other while either is still running or was cut short
\* by its time budget), and when both converge they return the same estimate
\* and function value, whatever is_increasing each caller passed.
FlagIndependence ==
    \A i \in Runs, j \in Runs : SameInputs(i, j) =>
        /\ IsPrefix(mids[i], mids[j]) \/ IsPrefix(mids[j], mids[i])
        /\ (Entered(i) /\ Entered(j)) => is_increasing[i] = is_increasing[j]
        /\ (exit[i] = "converged" /\ exit[j] = "converged") =>
            /\ mids[i] = mids[j]
            /\ result[i][1] = result[j][1]
            /\ result[i][3] = result[j][3]

FlagIndependenceWitness ==
    \E i \in Runs, j \in Runs :
        /\ SameInputs(i, j)
        /\ arg[i].is_increasing # arg[j].is_increasing
        /\ exit[i] = "converged" /\ exit[j] = "converged"
        /\ Len(mids[i]) >= 3
        /\ result[i][2] # result[j][2]

----------------------------------------------------------------------------
(* C7 *)

FloorHalvings(w, k) == w \div Pow2(k)
CeilHalvings(w, k) == -((-w) \div Pow2(k))

\* the width after k iterations, against the width passed by the caller
HalvingInvariant(i) ==
    LET w0 == arg[i].b - arg[i].a
        k == iterations[i]
    IN  /\ (w0 % Pow2(k) = 0) => (b[i] - a[i]) * Pow2(k) = w0
        /\ FloorHalvings(w0, k) <= b[i] - a[i]
        /\ b[i] - a[i] <= CeilHalvings(w0, k)

HalvingRoundedWitness ==
    \E i \in Runs :
        /\ pc[i] = "loop" /\ iterations[i] = 1
        /\ arg[i].b - arg[i].a = 7
        /\ b[i] - a[i] = 4

----------------------------------------------------------------------------
(* C8 *)

BracketCase(i) ==
    /\ StrictlyMonotonicOn(arg[i].function, arg[i].a, arg[i].b)
    /\ RootWithin(arg[i].function, arg[i].y, arg[i].a, arg[i].b)

\* C8: for a strictly monotonic f whose effective function has its root r
\* in [a0, b0], every state from the entry of the loop on has
\* a0 <= a < b <= b0 and a <= r <= b.
BracketingInvariant ==
    \A i \in Runs : (BracketCase(i) /\ Entered(i) /\ err[i] = "none") =>
        /\ arg[i].a <= a[i] /\ a[i] < b[i] /\ b[i] <= arg[i].b
        /\ RootWithin(arg[i].function, arg[i].y, a[i], b[i])

BracketingInvariantWitness ==
    \E i \in Runs :
        /\ BracketCase(i)
        /\ InLoop(i)
        /\ ~is_increasing[i]
        /\ arg[i].y # 0
        /\ a[i] # arg[i].a /\ b[i] # arg[i].b

----------------------------------------------------------------------------
(* C9 *)

\* C9: find_root's third component v has |v| <= tolerance exactly when the
\* return was the convergence branch; a return through the time-budget
\* branch has |v| > tolerance.
ValueTellsExit ==
    \A i \in Runs : result[i] # << >> =>
        /\ Returned(i)
        /\ (Abs(result[i][3]) <= arg[i].tolerance) <=> (exit[i] = "converged")
        /\ exit[i] = "timeout" => Abs(result[i][3]) > arg[i].tolerance

ValueTellsExitWitness ==
    \E i \in Runs :
        /\ exit[i] = "timeout"
        /\ iterations[i] >= 2
        /\ Abs(result[i][3]) = arg[i].tolerance + 1

----------------------------------------------------------------------------
(* C10 *)

\* C10: every invocation of find_root that has passed its precondition
\* checks eventually returns, by convergence or by the time-budget exit.
Termination == (pc[1] = "loop") ~> (exit[1] \in {"converged", "timeout"})

\* a call whose function never comes within tolerance on [a, b] and that
\* left through the time budget
TerminationWitness ==
    /\ exit[1] = "timeout"
    /\ ~RootWithin(arg[1].function, arg[1].y, arg[1].a, arg[1].b)
    /\ StrictlyMonotonicOn(arg[1].function, arg[1].a, arg[1].b)
    /\ iterations[1] >= 5
    /\ a[1] = b[1]

====
